---- MODULE Spec2Model ----
(***************************************************************************)
(* A model of the LineageMap engine of react-lineage-map                   *)
(* (src/src/LineageMap.ts, the class starting at line 1813): inference of  *)
(* table relationships, level assignment, position calculation,            *)
(* transformation validation and the upstream traversal.                   *)
(*                                                                         *)
(* Strings are sequences of one-character strings, so that the regular     *)
(* expression of the validator, startsWith and split(":") are computed and *)
(* not assumed.  A JS Set or array is a sequence in insertion order, a Map *)
(* whose iteration order is never used is a function.  Numbers that the    *)
(* code divides are rationals <<numerator, denominator>>.                  *)
(***************************************************************************)
EXTENDS Integers, Sequences, FiniteSets, TLC

\* ---------------------------------------------------------------- bounds
\* longest edge list of a graph, in each family of input graphs
MaxEdges == 3

\* ------------------------------------------------------------- strings
\* [a-zA-Z_]
Letters == {
    "A", "B", "C", "D", "E", "F", "G", "H", "I", "J", "K", "L", "M", "N",
    "O", "P", "Q", "R", "S", "T", "U", "V", "W", "X", "Y", "Z", "a", "b",
    "c", "d", "e", "f", "g", "h", "i", "j", "k", "l", "m", "n", "o", "p",
    "q", "r", "s", "t", "u", "v", "w", "x", "y", "z", "_" }

\* \d
Digits == {"0", "1", "2", "3", "4", "5", "6", "7", "8", "9"}

\* the empty string; also stands for an absent (undefined / null) value,
\* which the code only ever tests by truthiness
Empty == <<>>

Range(s) == {s[i] : i \in DOMAIN s}

\* s.includes(x) for an array or a Set kept in insertion order
Has(s, x) == \E i \in DOMAIN s : s[i] = x

\* Set.prototype.add on a Set kept in insertion order
SetAdd(s, x) == IF Has(s, x) THEN s ELSE Append(s, x)

\* String.prototype.startsWith
StartsWith(s, p) == Len(p) <= Len(s) /\ SubSeq(s, 1, Len(p)) = p

\* s.split(":")[0]: the part before the first colon, or all of s
RECURSIVE SplitHead(_, _)
SplitHead(s, i) ==
    IF i > Len(s) THEN s
    ELSE IF s[i] = ":" THEN SubSeq(s, 1, i - 1)
    ELSE SplitHead(s, i + 1)

SplitColon0(s) == SplitHead(s, 1)

\* last index of the run of characters of class cls that starts at i
\* (i - 1 when the run is empty)
RECURSIVE RunEnd(_, _, _)
RunEnd(s, i, cls) ==
    IF i <= Len(s) /\ s[i] \in cls THEN RunEnd(s, i + 1, cls) ELSE i - 1

\* /[a-zA-Z_]+:[a-zA-Z_]+\d*/ anchored at i: index of the last character
\* of the match, 0 when there is none.  Both letter runs are greedy, and a
\* shorter first run is followed by a letter, never by the colon.
MatchAt(s, i) ==
    LET j == RunEnd(s, i, Letters) IN
    IF j >= i /\ j + 1 <= Len(s) /\ s[j + 1] = ":"
    THEN LET k == RunEnd(s, j + 2, Letters) IN
         IF k >= j + 2 THEN RunEnd(s, k + 1, Digits) ELSE 0
    ELSE 0

\* s.match(fieldRefRegex) || []  with the g flag: the non-overlapping
\* matches from left to right
RECURSIVE MatchFrom(_, _)
MatchFrom(s, i) ==
    IF i > Len(s) THEN <<>>
    ELSE LET e == MatchAt(s, i) IN
         IF e > 0 THEN <<SubSeq(s, i, e)>> \o MatchFrom(s, e + 1)
         ELSE MatchFrom(s, i + 1)

fieldRefRegexMatch(s) == MatchFrom(s, 1)

\* new Set(array), in insertion order
RECURSIVE Dedup(_)
Dedup(s) == IF s = <<>> THEN <<>>
            ELSE SetAdd(Dedup(SubSeq(s, 1, Len(s) - 1)), s[Len(s)])

\* -------------------------------------------------------------- the graph
TableNode(id) ==
    [id |-> id, type |-> "table", tableId |-> Empty, transformation |-> Empty,
     note |-> Empty]

\* a field with a note (field.note, read at the popup and the indicator)
NotedFieldNode(id, tableId, transformation, note) ==
    [id |-> id, type |-> "field", tableId |-> tableId,
     transformation |-> transformation, note |-> note]

FieldNode(id, tableId, transformation) ==
    NotedFieldNode(id, tableId, transformation, Empty)

Edge(source, target) == [source |-> source, target |-> target]

Graph(nodes, edges) == [nodes |-> nodes, edges |-> edges]

\* graph.nodes.find(n => n.id === id): <<node>> or <<>> for undefined
RECURSIVE FindFrom(_, _, _)
FindFrom(nodes, id, i) ==
    IF i > Len(nodes) THEN <<>>
    ELSE IF nodes[i].id = id THEN <<nodes[i]>>
    ELSE FindFrom(nodes, id, i + 1)

FindNode(g, id) == FindFrom(g.nodes, id, 1)

\* node?.tableId, with undefined as the empty string (both are falsy)
TableIdOf(g, id) ==
    LET f == FindNode(g, id) IN IF f = <<>> THEN Empty ELSE f[1].tableId

\* all sequences over S of length at most n
RECURSIVE SeqsUpTo(_, _)
SeqsUpTo(S, n) ==
    IF n = 0 THEN {<<>>}
    ELSE LET shorter == SeqsUpTo(S, n - 1) IN
         shorter \cup {Append(q, x) : q \in {r \in shorter : Len(r) = n - 1},
                                      x \in S}

\* ------------------------------------------- inferTableRelationships
RelationKey(s, t) == s \o <<"-", ">">> \o t

TableTableEdge(s, t) ==
    [id |-> <<"t", "a", "b", "l", "e", "-">> \o RelationKey(s, t),
     source |-> s, target |-> t, type |-> "table-table"]

RECURSIVE InferFrom(_, _, _, _)
InferFrom(g, i, tableRelations, inferredEdges) ==
    IF i > Len(g.edges) THEN inferredEdges
    ELSE LET s == TableIdOf(g, g.edges[i].source)
             t == TableIdOf(g, g.edges[i].target)
             key == RelationKey(s, t)
         IN IF s /= Empty /\ t /= Empty /\ s /= t /\ ~Has(tableRelations, key)
            THEN InferFrom(g, i + 1, Append(tableRelations, key),
                           Append(inferredEdges, TableTableEdge(s, t)))
            ELSE InferFrom(g, i + 1, tableRelations, inferredEdges)

inferTableRelationships(g) == InferFrom(g, 1, <<>>, <<>>)

\* ---------------------------------------------------------- getTableLevels
tableNodesOf(g) == SelectSeq(g.nodes, LAMBDA n : n.type = "table")

TableIds(g) == {tableNodesOf(g)[i].id : i \in DOMAIN tableNodesOf(g)}

\* a Map in insertion order is a sequence of entries [key, value]
MapHas(m, k) == \E i \in DOMAIN m : m[i].key = k

MapGet(m, k) == m[CHOOSE i \in DOMAIN m : m[i].key = k].value

MapSet(m, k, v) ==
    IF MapHas(m, k)
    THEN [i \in DOMAIN m |-> IF m[i].key = k THEN [key |-> k, value |-> v]
                             ELSE m[i]]
    ELSE Append(m, [key |-> k, value |-> v])

\* tableNodes.forEach(table => upstreamTableDependencies.set(table.id, new Set()))
RECURSIVE InitDependencies(_, _, _)
InitDependencies(tables, i, m) ==
    IF i > Len(tables) THEN m
    ELSE InitDependencies(tables, i + 1, MapSet(m, tables[i].id, <<>>))

\* inferredEdges.forEach: add edge.target to the set of edge.source, when
\* edge.source is a table of the graph
RECURSIVE BuildDependencies(_, _, _)
BuildDependencies(inferredEdges, i, m) ==
    IF i > Len(inferredEdges) THEN m
    ELSE LET e == inferredEdges[i] IN
         IF MapHas(m, e.source)
         THEN BuildDependencies(inferredEdges, i + 1,
                  MapSet(m, e.source, SetAdd(MapGet(m, e.source), e.target)))
         ELSE BuildDependencies(inferredEdges, i + 1, m)

upstreamTableDependenciesOf(g) ==
    BuildDependencies(inferTableRelationships(g), 1,
                      InitDependencies(tableNodesOf(g), 1, <<>>))

HasInferredEdge(inferredEdges, id) ==
    \E i \in DOMAIN inferredEdges :
        inferredEdges[i].target = id \/ inferredEdges[i].source = id

\* tablesWithNoConnections that finds none, so that every table goes through
\* the rounds of the loop
tablesWithNoConnectionsNone(g) == <<>>

tablesWithNoConnections(g) ==
    SelectSeq(tableNodesOf(g),
              LAMBDA t : ~HasInferredEdge(inferTableRelationships(g), t.id))

TableLevelRec(id, level, dependencies) ==
    [id |-> id, level |-> level, dependencies |-> dependencies]

\* LevelStep without the branch for the remaining tables: a round in which
\* no table qualifies processes nothing
LevelStepNoFallback(g, deps, st) ==
    LET currentLevelTables ==
            SelectSeq(deps, LAMBDA e : e.key \notin st.processed
                                       /\ Range(e.value) \subseteq st.processed)
    IN [levels |-> st.levels \o
            [i \in 1..Len(currentLevelTables) |->
                TableLevelRec(currentLevelTables[i].key, st.currentLevel,
                              currentLevelTables[i].value)],
        processed |-> st.processed \cup
            {currentLevelTables[i].key : i \in 1..Len(currentLevelTables)},
        currentLevel |-> st.currentLevel + 1,
        maxLevel |-> IF st.currentLevel > st.maxLevel
                     THEN st.currentLevel ELSE st.maxLevel]

\* one iteration of the while loop: the tables whose dependencies are all
\* processed, or, when there is none, every table not yet processed
LevelStep(g, deps, st) ==
    LET currentLevelTables ==
            SelectSeq(deps, LAMBDA e : e.key \notin st.processed
                                       /\ Range(e.value) \subseteq st.processed)
        remaining ==
            SelectSeq(tableNodesOf(g), LAMBDA t : t.id \notin st.processed)
    IN IF Len(currentLevelTables) = 0
       THEN [levels |-> st.levels \o
                 [i \in 1..Len(remaining) |->
                     TableLevelRec(remaining[i].id, st.currentLevel,
                         IF MapHas(deps, remaining[i].id)
                         THEN MapGet(deps, remaining[i].id) ELSE <<>>)],
             processed |-> st.processed \cup
                 {remaining[i].id : i \in 1..Len(remaining)},
             currentLevel |-> st.currentLevel + 1,
             maxLevel |-> st.maxLevel]
       ELSE [levels |-> st.levels \o
                 [i \in 1..Len(currentLevelTables) |->
                     TableLevelRec(currentLevelTables[i].key, st.currentLevel,
                                   currentLevelTables[i].value)],
             processed |-> st.processed \cup
                 {currentLevelTables[i].key : i \in 1..Len(currentLevelTables)},
             currentLevel |-> st.currentLevel + 1,
             maxLevel |-> IF st.currentLevel > st.maxLevel
                          THEN st.currentLevel ELSE st.maxLevel]

\* while (processed.size < tableNodes.length): the loop is cut after
\* `fuel` iterations, and the cut is reported as done = FALSE
RECURSIVE LevelLoop(_, _, _, _)
LevelLoop(g, deps, st, fuel) ==
    IF ~(Cardinality(st.processed) < Len(tableNodesOf(g)))
    THEN [done |-> TRUE, st |-> st]
    ELSE IF fuel = 0 THEN [done |-> FALSE, st |-> st]
    ELSE LevelLoop(g, deps, LevelStep(g, deps, st), fuel - 1)

\* the levels as the rounds of the loop numbered them, not reversed
RoundsAsLevels(levels, maxLevel) == levels

\* node.level = maxLevel - node.level + 1 for every level but 0
ReverseLevels(levels, maxLevel) ==
    [i \in DOMAIN levels |->
        IF levels[i].level /= 0
        THEN [levels[i] EXCEPT !.level = maxLevel - levels[i].level + 1]
        ELSE levels[i]]

\* group by level (a Map), sort the groups by level, flatten: a stable
\* sort by level
RECURSIVE SortByLevel(_, _)
SortByLevel(levels, keys) ==
    IF keys = {} THEN <<>>
    ELSE LET k == CHOOSE x \in keys : \A y \in keys : x <= y IN
         SelectSeq(levels, LAMBDA r : r.level = k)
             \o SortByLevel(levels, keys \ {k})

getTableLevelsRun(g) ==
    LET isolated == tablesWithNoConnections(g)
        st0 == [levels |-> [i \in 1..Len(isolated) |->
                               TableLevelRec(isolated[i].id, 0, <<>>)],
                processed |-> {isolated[i].id : i \in 1..Len(isolated)},
                currentLevel |-> 1,
                maxLevel |-> 1]
        run == LevelLoop(g, upstreamTableDependenciesOf(g), st0,
                         Len(tableNodesOf(g)) + 1)
        reversed == ReverseLevels(run.st.levels, run.st.maxLevel)
    IN [terminated |-> run.done,
        value |-> SortByLevel(reversed,
                              {reversed[i].level : i \in DOMAIN reversed})]

getTableLevels(g) == getTableLevelsRun(g).value

\* --------------------------------------------------------- getRelatedFields
\* traverse(id) and the forEach over graph.edges inside it; st holds the
\* Sets related and visited.  The recursion is cut at depth `fuel`, and the
\* cut is reported as done = FALSE.
\* FeedsInto with the edge followed the other way round
FeedsIntoDownstream(edge, id) == edge.source = id

\* edge.target === id: the edge feeds into the current field
FeedsInto(edge, id) == edge.target = id

RECURSIVE Traverse(_, _, _, _), TraverseEdges(_, _, _, _, _)
Traverse(g, id, st, fuel) ==
    IF Has(st.visited, id) THEN st
    ELSE IF fuel = 0 THEN [st EXCEPT !.done = FALSE]
    ELSE TraverseEdges(g, id, 1,
                       [st EXCEPT !.visited = Append(st.visited, id)], fuel)

TraverseEdges(g, id, i, st, fuel) ==
    IF i > Len(g.edges) THEN st
    ELSE IF FeedsInto(g.edges[i], id)
    THEN TraverseEdges(g, id, i + 1,
             Traverse(g, g.edges[i].source,
                      [st EXCEPT !.related = SetAdd(st.related, g.edges[i].source)],
                      fuel - 1),
             fuel)
    ELSE TraverseEdges(g, id, i + 1, st, fuel)

getRelatedFieldsRun(g, fieldId) ==
    Traverse(g, fieldId,
             [related |-> <<fieldId>>, visited |-> <<>>, done |-> TRUE],
             2 * Len(g.edges) + 2)

getRelatedFields(g, fieldId) == Range(getRelatedFieldsRun(g, fieldId).related)

\* -------------------------------------------------- validateTransformations
\* incomingEdges: for every edge, edge.source in the Set of edge.target
RECURSIVE IncomingFrom(_, _, _)
IncomingFrom(edges, i, m) ==
    IF i > Len(edges) THEN m
    ELSE IncomingFrom(edges, i + 1,
             MapSet(m, edges[i].target,
                    SetAdd(IF MapHas(m, edges[i].target)
                           THEN MapGet(m, edges[i].target) ELSE <<>>,
                           edges[i].source)))

incomingEdgesOf(g) == IncomingFrom(g.edges, 1, <<>>)

\* incomingEdges.get(node.id) || new Set()
incomingFieldsOf(g, id) ==
    IF MapHas(incomingEdgesOf(g), id) THEN MapGet(incomingEdgesOf(g), id)
    ELSE <<>>

\* referencedFieldSetOf without the Set: every match counts
referencedFieldsRepeated(transformation) == fieldRefRegexMatch(transformation)

\* new Set(node.transformation.match(fieldRefRegex) || [])
referencedFieldSetOf(transformation) ==
    Dedup(fieldRefRegexMatch(transformation))

\* `Field "${fieldRef}" is used in transformation but has no edge
\* connecting to "${node.id}".`
NoEdgeMessage(fieldRef, nodeId) ==
    [text |-> "is used in transformation but has no edge connecting to",
     field |-> fieldRef, node |-> nodeId]

\* `Field "${sourceField}" has an edge but isn't used in the transformation.`
UnusedMessage(sourceField) ==
    [text |-> "has an edge but isn't used in the transformation",
     field |-> sourceField, node |-> Empty]

\* referencedFieldSet.forEach: the references that no edge brings in
NoEdgeErrors(referenced, incoming, nodeId) ==
    LET missing == SelectSeq(referenced, LAMBDA r : ~Has(incoming, r)) IN
    [i \in 1..Len(missing) |-> NoEdgeMessage(missing[i], nodeId)]

\* UnusedErrors that reports only the first unused source
UnusedErrorsFirstOnly(referenced, incoming) ==
    LET unused == SelectSeq(incoming, LAMBDA x : ~Has(referenced, x)) IN
    [i \in 1..(IF Len(unused) > 1 THEN 1 ELSE Len(unused)) |->
        UnusedMessage(unused[i])]

\* incomingFields.forEach: the sources that the transformation does not use
UnusedErrors(referenced, incoming) ==
    LET unused == SelectSeq(incoming, LAMBDA x : ~Has(referenced, x)) IN
    [i \in 1..Len(unused) |-> UnusedMessage(unused[i])]

errorsOf(g, node) ==
    NoEdgeErrors(referencedFieldSetOf(node.transformation),
                 incomingFieldsOf(g, node.id), node.id)
        \o UnusedErrors(referencedFieldSetOf(node.transformation),
                        incomingFieldsOf(g, node.id))

\* a Map that holds nothing
EmptyMap == [k \in {} |-> <<>>]

\* Map.set on a Map kept as a function
Put(m, k, v) == [x \in DOMAIN m \cup {k} |-> IF x = k THEN v ELSE m[x]]

\* ValidateFrom that sets an entry for every field with a transformation,
\* also when its list of errors is empty
RECURSIVE ValidateFromEveryField(_, _, _)
ValidateFromEveryField(g, i, errors) ==
    IF i > Len(g.nodes) THEN errors
    ELSE LET node == g.nodes[i] IN
         IF node.type = "field" /\ node.transformation /= Empty
         THEN ValidateFromEveryField(g, i + 1,
                  Put(errors, node.id, errorsOf(g, node)))
         ELSE ValidateFromEveryField(g, i + 1, errors)

\* graph.nodes.forEach: a field with a transformation and at least one
\* error gets an entry
RECURSIVE ValidateFrom(_, _, _)
ValidateFrom(g, i, errors) ==
    IF i > Len(g.nodes) THEN errors
    ELSE LET node == g.nodes[i] IN
         IF node.type = "field" /\ node.transformation /= Empty
                /\ Len(errorsOf(g, node)) > 0
         THEN ValidateFrom(g, i + 1, Put(errors, node.id, errorsOf(g, node)))
         ELSE ValidateFrom(g, i + 1, errors)

\* ---------------------------------------------------------------- numbers
\* A y coordinate is a rational <<numerator, denominator>> in lowest terms
\* with a positive denominator: the code halves and averages.
Abs(n) == IF n < 0 THEN -n ELSE n

RECURSIVE Gcd(_, _)
Gcd(a, b) == IF b = 0 THEN a ELSE Gcd(b, a % b)

Rat(n, d) ==
    LET k == Gcd(Abs(n), Abs(d))
        sign == IF d < 0 THEN -1 ELSE 1
    IN <<sign * (n \div k), sign * (d \div k)>>

Int2Rat(n) == <<n, 1>>

RatAdd(p, q) == Rat(p[1] * q[2] + q[1] * p[2], p[2] * q[2])

RatDivInt(p, k) == Rat(p[1], p[2] * k)

RatLess(p, q) == p[1] * q[2] < q[1] * p[2]

\* -------------------------------------------------------- getOptimalTableY
\* the loop over incomingEdges; acc holds tableSourceSet, edgeSourceSet,
\* totalY and minY (<<>> for null)
RECURSIVE OptimalLoop(_, _, _, _)
OptimalLoop(incoming, i, pos, acc) ==
    IF i > Len(incoming) THEN acc
    ELSE LET src == incoming[i].source
             acc1 == [acc EXCEPT !.tableSourceSet = SetAdd(@, SplitColon0(src))]
         IN IF Has(acc.edgeSourceSet, src)
            THEN OptimalLoop(incoming, i + 1, pos, acc1)
            ELSE LET acc2 == [acc1 EXCEPT !.edgeSourceSet = Append(@, src)] IN
                 \* if (fieldPositionY): a position whose y is not 0
                 IF src \in DOMAIN pos /\ pos[src].y /= Int2Rat(0)
                 THEN OptimalLoop(incoming, i + 1, pos,
                          [acc2 EXCEPT
                              !.totalY = RatAdd(@, pos[src].y),
                              !.minY = IF @ = <<>> \/ RatLess(pos[src].y, @[1])
                                       THEN <<pos[src].y>> ELSE @])
                 ELSE OptimalLoop(incoming, i + 1, pos, acc2)

\* getOptimalTableY: <<>> for null, <<y>> for a number
getOptimalTableY(g, tableId, pos) ==
    LET incomingEdges ==
            SelectSeq(g.edges, LAMBDA e : StartsWith(e.target, tableId))
        acc == OptimalLoop(incomingEdges, 1, pos,
                   [tableSourceSet |-> <<>>, edgeSourceSet |-> <<>>,
                    totalY |-> Int2Rat(0), minY |-> <<>>])
    IN IF Len(incomingEdges) = 0 THEN <<>>
       ELSE IF Len(acc.tableSourceSet) = 1 THEN acc.minY
       ELSE <<RatDivInt(acc.totalY, Len(acc.edgeSourceSet))>>

\* ------------------------------------------------------ calculatePositions
\* tablesByLevel: level -> the ids of its tables, both in insertion order
RECURSIVE GroupByLevel(_, _, _)
GroupByLevel(tableLevels, i, m) ==
    IF i > Len(tableLevels) THEN m
    ELSE GroupByLevel(tableLevels, i + 1,
             MapSet(m, tableLevels[i].level,
                    Append(IF MapHas(m, tableLevels[i].level)
                           THEN MapGet(m, tableLevels[i].level) ELSE <<>>,
                           tableLevels[i].id)))

tablesByLevelOf(tableLevels) == GroupByLevel(tableLevels, 1, <<>>)

fieldsOfTable(g, tableId) ==
    SelectSeq(g.nodes, LAMBDA n : n.type = "field" /\ n.tableId = tableId)

getTableHeight(g, expanded, o, tableId) ==
    IF tableId \notin expanded THEN o.tableHeight
    ELSE o.tableHeight
            + Len(fieldsOfTable(g, tableId)) * (o.fieldHeight + o.fieldSpacing)

\* tablesInLevel.reduce: the sum of height + verticalPadding
RECURSIVE LevelHeight(_, _, _, _, _)
LevelHeight(g, expanded, o, tablesInLevel, i) ==
    IF i > Len(tablesInLevel) THEN 0
    ELSE getTableHeight(g, expanded, o, tablesInLevel[i]) + o.verticalPadding
            + LevelHeight(g, expanded, o, tablesInLevel, i + 1)

\* Math.max over the level heights (not used when there is no level)
maxLevelHeightOf(g, expanded, o, byLevel) ==
    IF byLevel = <<>> THEN 0
    ELSE LET hs == {LevelHeight(g, expanded, o, byLevel[i].value, 1) :
                       i \in DOMAIN byLevel}
         IN CHOOSE h \in hs : \A k \in hs : k <= h

\* PlaceFields that counts the fields from 1 where the code counts from 0
RECURSIVE PlaceFieldsFromOne(_, _, _, _, _, _)
PlaceFieldsFromOne(fields, i, levelX, yPosition, o, pos) ==
    IF i > Len(fields) THEN pos
    ELSE PlaceFieldsFromOne(fields, i + 1, levelX, yPosition, o,
             Put(pos, fields[i].id,
                 [x |-> levelX,
                  y |-> RatAdd(yPosition,
                            Int2Rat(o.tableHeight
                                + i * (o.fieldHeight + o.fieldSpacing)))]))

\* fields.forEach: the fields of an expanded table, below its header
RECURSIVE PlaceFields(_, _, _, _, _, _)
PlaceFields(fields, i, levelX, yPosition, o, pos) ==
    IF i > Len(fields) THEN pos
    ELSE PlaceFields(fields, i + 1, levelX, yPosition, o,
             Put(pos, fields[i].id,
                 [x |-> levelX,
                  y |-> RatAdd(yPosition,
                            Int2Rat(o.tableHeight
                                + (i - 1) * (o.fieldHeight + o.fieldSpacing)))]))

\* NextCurrentY that does not advance: the currentY the table was placed from
NextCurrentYNotAdvanced(g, expanded, o, tableId, yPosition) ==
    RatAdd(yPosition, Int2Rat(0 - o.verticalPadding))

\* currentY = yPosition + getTableHeight(tableId) + verticalPadding
NextCurrentY(g, expanded, o, tableId, yPosition) ==
    RatAdd(yPosition,
           Int2Rat(getTableHeight(g, expanded, o, tableId) + o.verticalPadding))

\* tablesInLevel.forEach((tableId, idx) => ...); st holds positions and
\* currentY
RECURSIVE PlaceTables(_, _, _, _, _, _, _)
PlaceTables(g, expanded, o, tablesInLevel, idx, levelX, st) ==
    IF idx > Len(tablesInLevel) THEN st
    ELSE LET tableId == tablesInLevel[idx] IN
         IF FindNode(g, tableId) = <<>>
         THEN PlaceTables(g, expanded, o, tablesInLevel, idx + 1, levelX, st)
         ELSE LET optimalTableY ==
                      IF idx = 1 THEN getOptimalTableY(g, tableId, st.positions)
                      ELSE <<>>
                  yPosition ==
                      IF optimalTableY /= <<>> THEN optimalTableY[1]
                      ELSE RatAdd(st.currentY, Int2Rat(o.verticalPadding))
                  withTable ==
                      Put(st.positions, tableId, [x |-> levelX, y |-> yPosition])
                  withFields ==
                      IF tableId \in expanded
                      THEN PlaceFields(fieldsOfTable(g, tableId), 1, levelX,
                                       yPosition, o, withTable)
                      ELSE withTable
              IN PlaceTables(g, expanded, o, tablesInLevel, idx + 1, levelX,
                     [positions |-> withFields,
                      currentY |-> NextCurrentY(g, expanded, o, tableId,
                                                yPosition)])

\* tablesByLevel.forEach((tablesInLevel, level) => ...)
RECURSIVE PlaceLevels(_, _, _, _, _, _)
PlaceLevels(g, expanded, o, byLevel, i, pos) ==
    IF i > Len(byLevel) THEN pos
    ELSE LET level == byLevel[i].key
             levelX == level * (o.tableWidth + o.levelPadding)
             levelHeight == LevelHeight(g, expanded, o, byLevel[i].value, 1)
             currentY == Rat(maxLevelHeightOf(g, expanded, o, byLevel)
                                 - levelHeight, 2)
         IN PlaceLevels(g, expanded, o, byLevel, i + 1,
                PlaceTables(g, expanded, o, byLevel[i].value, 1, levelX,
                    [positions |-> pos, currentY |-> currentY]).positions)

\* DefaultRemaining that leaves the unplaced nodes out of the Map
DefaultRemainingSkipped(g, pos) == pos

\* graph.nodes.forEach: a node without a position gets (0, 0)
DefaultRemaining(g, pos) ==
    [id \in DOMAIN pos \cup {g.nodes[i].id : i \in DOMAIN g.nodes} |->
        IF id \in DOMAIN pos THEN pos[id] ELSE [x |-> 0, y |-> Int2Rat(0)]]

\* the positions the level loop sets
placedPositions(g, tableLevels, expanded, o) ==
    PlaceLevels(g, expanded, o, tablesByLevelOf(tableLevels), 1, EmptyMap)

calculatePositions(g, tableLevels, expanded, o) ==
    DefaultRemaining(g, placedPositions(g, tableLevels, expanded, o))

\* ------------------------------------------------------------ constructor
\* an option of the caller is <<>> when omitted and <<n>> when supplied;
\* options.x || d
OrDefault(v, d) == IF v = <<>> \/ v = <<0>> THEN d ELSE v[1]

NoOptions ==
    [tableWidth |-> <<>>, tableHeight |-> <<>>, fieldHeight |-> <<>>,
     fieldSpacing |-> <<>>, levelPadding |-> <<>>, verticalPadding |-> <<>>]

constructor(o) ==
    [tableWidth |-> OrDefault(o.tableWidth, 150),
     tableHeight |-> OrDefault(o.tableHeight, 40),
     fieldHeight |-> OrDefault(o.fieldHeight, 20),
     fieldSpacing |-> OrDefault(o.fieldSpacing, 4),
     levelPadding |-> OrDefault(o.levelPadding, 100),
     verticalPadding |-> OrDefault(o.verticalPadding, 50)]

\* LineageMapComponent: the layout values of defaultOptions
ComponentDefaults ==
    [tableWidth |-> 150, tableHeight |-> 40, fieldHeight |-> 20,
     fieldSpacing |-> 4, levelPadding |-> 100, verticalPadding |-> 50]

\* { ...the defaults, ...options }: a key of options replaces the default
defaultOptions(o) ==
    [p \in DOMAIN o |-> IF o[p] = <<>> THEN <<ComponentDefaults[p]>> ELSE o[p]]

\* LineageMapComponent: data.nodes.forEach: every field gets the part of its
\* id before the first ":" as tableId (edge.id, which nothing here reads,
\* is left out)
NormalizeNode(node) ==
    IF node.type = "field"
    THEN [node EXCEPT !.tableId = SplitColon0(node.id)]
    ELSE node

normalizeData(data) ==
    Graph([i \in DOMAIN data.nodes |-> NormalizeNode(data.nodes[i])],
          data.edges)

\* ------------------------------------------------------------------ state
VARIABLES
    graph,                    \* the Graph the caller holds and passes in
    suppliedOptions,          \* the options the caller has passed in
    firstReport,              \* the caller's copy of the report of its first
                              \* validateTransformations call, with the graph
                              \* of that call and whether the caller has
                              \* called again since (<<>>: no call yet)
    returned,                 \* the last call of a method and what it returned
    options,                  \* this.options
    expandedTables,           \* this.expandedTables
    highlightedRelatedFields, \* this.highlightedRelatedFields
    selectedField,            \* this.selectedField (Empty for null)
    positions,                \* this.positions
    validationErrors,         \* this.validationErrors
    currentGraph,             \* this.currentGraph (<<>> for null, else <<g>>)
    popup                     \* the field whose .transformation-popup is in
                              \* mainGroup (Empty when there is none)

vars == <<graph, suppliedOptions, firstReport, returned, options,
          expandedTables, highlightedRelatedFields, selectedField, positions,
          validationErrors, currentGraph, popup>>

\* what the caller holds
caller == <<graph, suppliedOptions, firstReport>>

instance == <<options, expandedTables, highlightedRelatedFields,
              selectedField, positions, validationErrors, currentGraph, popup>>

\* the field initialisers of the class and the constructor
NewInstance(o) ==
    /\ options = constructor(o)
    /\ expandedTables = {}
    /\ highlightedRelatedFields = {}
    /\ selectedField = Empty
    /\ positions = EmptyMap
    /\ validationErrors = EmptyMap
    /\ currentGraph = <<>>
    /\ popup = Empty
    /\ returned = [op |-> "none", arg |-> <<>>, terminated |-> TRUE,
                   value |-> <<>>]

\* ------------------------------------------------- the inputs: graph ids
idA == <<"A">>
idB == <<"B">>
idC == <<"C">>
idZ == <<"Z">>
idArrow == <<"A", "-", ">", "A">>
idAa == <<"A", ":", "a">>
idAe == <<"A", ":", "e">>
idBb == <<"B", ":", "b">>
idCc == <<"C", ":", "c">>
idZz == <<"Z", ":", "z">>
idQq == <<"Q", ":", "q">>
idXx == <<"X", ":", "x">>

\* Tables A, B, C and "A->A" with their fields; Z:z names a table that is
\* not in the graph.
RelationNodes ==
    << TableNode(idA), FieldNode(idAa, idA, Empty), FieldNode(idAe, idA, Empty),
       TableNode(idB), FieldNode(idBb, idB, Empty),
       TableNode(idC), FieldNode(idCc, idC, Empty),
       FieldNode(idZz, idZ, Empty),
       TableNode(idArrow), FieldNode(idXx, idArrow, Empty) >>

\* the edges a graph of this family is made of: both directions between A
\* and B, a second field edge for the same pair of tables, a 3-cycle, an
\* edge inside one table, an edge into the table that is missing, a table
\* node and an unknown id as source, and both directions between A and "A->A"
RelationEdges ==
    { Edge(idAa, idBb), Edge(idBb, idAa), Edge(idAe, idBb), Edge(idBb, idCc),
      Edge(idCc, idAa), Edge(idAa, idCc), Edge(idAa, idAe), Edge(idCc, idZz),
      Edge(idA, idBb), Edge(idQq, idBb), Edge(idAa, idXx), Edge(idXx, idAa) }

RelationGraphs ==
    {Graph(RelationNodes, es) : es \in SeqsUpTo(RelationEdges, MaxEdges)}

\* a table of which no field and no edge of the graph knows, and the places
\* among the nodes where the caller adds it: first, fourth and last
idE == <<"E">>

AddedAt(g) == {0, 3, Len(g.nodes)}

\* the graph with a table node `id` put in after the k-th node
WithTable(g, k, id) ==
    Graph(SubSeq(g.nodes, 1, k) \o <<TableNode(id)>>
              \o SubSeq(g.nodes, k + 1, Len(g.nodes)),
          g.edges)

RelationStartIds == {idAa, idBb, idCc, idZz, idQq, idA}

\* ------------------------------------ the inputs: the example graph
\* example/src/data.ts, as the component passes it on: every field has
\* the part of its id before the colon as tableId
exTA ==
    <<"t", "a", "b", "l", "e", "_", "A">>

exTA_A1 ==
    <<"t", "a", "b", "l", "e", "_", "A",
    ":", "f", "i", "e", "l", "d", "_", "A", "1">>

exTA_A2 ==
    <<"t", "a", "b", "l", "e", "_", "A",
    ":", "f", "i", "e", "l", "d", "_", "A", "2">>

exTA_A7 ==
    <<"t", "a", "b", "l", "e", "_", "A",
    ":", "f", "i", "e", "l", "d", "_", "A", "7">>

exTA_A9 ==
    <<"t", "a", "b", "l", "e", "_", "A",
    ":", "f", "i", "e", "l", "d", "_", "A", "9">>

exTB ==
    <<"t", "a", "b", "l", "e", "_", "B">>

exTB_B1 ==
    <<"t", "a", "b", "l", "e", "_", "B",
    ":", "f", "i", "e", "l", "d", "_", "B", "1">>

exTC ==
    <<"t", "a", "b", "l", "e", "_", "C">>

exTC_C1 ==
    <<"t", "a", "b", "l", "e", "_", "C",
    ":", "f", "i", "e", "l", "d", "_", "C", "1">>

exTD ==
    <<"t", "a", "b", "l", "e", "_", "D">>

exTD_D1 ==
    <<"t", "a", "b", "l", "e", "_", "D",
    ":", "f", "i", "e", "l", "d", "_", "D", "1">>

exTD_D3 ==
    <<"t", "a", "b", "l", "e", "_", "D",
    ":", "f", "i", "e", "l", "d", "_", "D", "3">>

exTD_D4 ==
    <<"t", "a", "b", "l", "e", "_", "D",
    ":", "f", "i", "e", "l", "d", "_", "D", "4">>

exTransformationD1 ==
    exTA_A7
        \o <<" ", "+", " ">>
        \o exTC_C1

exTransformationD3 ==
    exTA_A7
        \o <<" ", "-", " ">>
        \o exTA_A9

ExampleNodes ==
    << TableNode(exTA),
       FieldNode(exTA_A1, SplitColon0(exTA_A1), Empty),
       FieldNode(exTA_A2, SplitColon0(exTA_A2), Empty),
       FieldNode(exTA_A7, SplitColon0(exTA_A7), Empty),
       FieldNode(exTA_A9, SplitColon0(exTA_A9), Empty),
       TableNode(exTB),
       FieldNode(exTB_B1, SplitColon0(exTB_B1), Empty),
       TableNode(exTC),
       FieldNode(exTC_C1, SplitColon0(exTC_C1), Empty),
       TableNode(exTD),
       FieldNode(exTD_D1, SplitColon0(exTD_D1), exTransformationD1),
       FieldNode(exTD_D3, SplitColon0(exTD_D3), exTransformationD3),
       FieldNode(exTD_D4, SplitColon0(exTD_D4), Empty) >>

ExampleEdges ==
    << Edge(exTA_A1, exTD_D1),
       Edge(exTB_B1, exTD_D1),
       Edge(exTC_C1, exTD_D1),
       Edge(exTA_A7, exTD_D1),
       Edge(exTA_A7, exTD_D3),
       Edge(exTA_A9, exTD_D3) >>

ExampleGraph == Graph(ExampleNodes, ExampleEdges)

\* --------------------------- the inputs: graphs with transformations
idD == <<"D">>
idDd == <<"D", ":", "d">>
idDe == <<"D", ":", "e">>
idNn == <<"N", ":", "n">>
idAa1 == <<"A", ":", "a", "1">>
plus == <<" ", "+", " ">>

\* the texts of the transformation of field D:d: none, one reference, two
\* references, the same reference twice, a reference to an id that is no
\* node, a reference with trailing digits next to text that is no reference
Transformations ==
    { Empty,
      idAa,
      idAa \o plus \o idBb,
      idAa \o plus \o idAa,
      idQq \o plus \o idAa,
      <<"1">> \o plus \o idAa1 \o <<":", "b", " ">> }

ValidationNodes(transformation) ==
    << TableNode(idA), FieldNode(idAa, idA, Empty), FieldNode(idAa1, idA, Empty),
       TableNode(idB), FieldNode(idBb, idB, Empty),
       TableNode(idD), FieldNode(idDd, idD, transformation),
       FieldNode(idDe, idD, idAa) >>

\* edges into D:d from nodes and from an id that is no node, an edge into
\* the second field with a transformation, an edge into a field without a
\* transformation and an edge into an id that is no node
ValidationEdges ==
    { Edge(idAa, idDd), Edge(idBb, idDd), Edge(idAa1, idDd), Edge(idQq, idDd),
      Edge(idAa, idDe), Edge(idDd, idAa), Edge(idAa, idNn) }

ValidationGraphs ==
    {Graph(ValidationNodes(tr), es) :
        tr \in Transformations, es \in SeqsUpTo(ValidationEdges, MaxEdges)}
        \cup {ExampleGraph}

\* ------------------------------------------ the inputs: graphs to lay out
\* Table A with two fields, tables B and D with one field each, and a field
\* whose table is not in the graph.
LayoutNodes ==
    << TableNode(idA), FieldNode(idAa, idA, Empty), FieldNode(idAe, idA, Empty),
       TableNode(idB), FieldNode(idBb, idB, Empty),
       TableNode(idD), FieldNode(idDd, idD, idAa),
       FieldNode(idZz, idZ, Empty) >>

\* edges into D:d from both fields of A, from B and from an id that is no
\* node, and an edge from A into B
LayoutEdges ==
    { Edge(idAa, idDd), Edge(idAe, idDd), Edge(idBb, idDd), Edge(idAa, idBb),
      Edge(idQq, idDd) }

idDD == <<"D", "D">>
idDDx == <<"D", "D", ":", "x">>

\* Two tables of which one id is the beginning of the other (D and DD), as
\* in `orders` and `orders_archive`, table A with two fields, and a field
\* whose table is not in the graph.
PrefixNodes ==
    << TableNode(idA), FieldNode(idAa, idA, Empty), FieldNode(idAe, idA, Empty),
       TableNode(idD), FieldNode(idDd, idD, Empty),
       TableNode(idDD), FieldNode(idDDx, idDD, Empty),
       FieldNode(idZz, idZ, Empty) >>

\* an edge from A into D, an edge from A into DD, and an edge from D to the
\* field of the absent table
PrefixEdges ==
    { Edge(idAe, idDd), Edge(idAa, idDDx), Edge(idDd, idZz) }

LayoutGraphs ==
    {Graph(LayoutNodes, es) : es \in SeqsUpTo(LayoutEdges, MaxEdges)}
        \cup {Graph(PrefixNodes, es) : es \in SeqsUpTo(PrefixEdges, MaxEdges)}

\* TableLevel sequences that getTableLevels does not return: none; a level
\* that starts with an id that is no node and leaves B out; levels in
\* descending order with a field id and a table twice
ForeignLevels ==
    { <<>>,
      << TableLevelRec(<<"Q">>, 0, <<>>), TableLevelRec(idD, 0, <<>>),
         TableLevelRec(idA, 0, <<>>) >>,
      << TableLevelRec(idB, 2, <<>>), TableLevelRec(idAa, 1, <<>>),
         TableLevelRec(idB, 1, <<>>) >> }

\* ---------------------------------------------------------------- actions
Return(op, arg, terminated, value) ==
    returned' = [op |-> op, arg |-> arg, terminated |-> terminated,
                 value |-> value]

InferTableRelationships ==
    /\ Return("inferTableRelationships", <<>>, TRUE,
              inferTableRelationships(graph))
    /\ UNCHANGED <<caller, instance>>

GetTableLevels ==
    /\ LET run == getTableLevelsRun(graph) IN
       Return("getTableLevels", <<>>, run.terminated, run.value)
    /\ UNCHANGED <<caller, instance>>

\* getTableLevels on the graph to which the caller has added the table E
GetTableLevelsWithTable(k) ==
    /\ LET run == getTableLevelsRun(WithTable(graph, k, idE)) IN
       Return("getTableLevelsWithTable", k, run.terminated, run.value)
    /\ UNCHANGED <<caller, instance>>

GetRelatedFields(fieldId) ==
    /\ LET run == getRelatedFieldsRun(graph, fieldId) IN
       Return("getRelatedFields", fieldId, run.done, run.related)
    /\ UNCHANGED <<caller, instance>>

\* ------------------------- the relationship, level and traversal methods
InitRelations ==
    /\ graph \in RelationGraphs
    /\ suppliedOptions = NoOptions
    /\ firstReport = <<>>
    /\ NewInstance(suppliedOptions)

NextRelations ==
    \/ InferTableRelationships
    \/ GetTableLevels
    \/ \E k \in AddedAt(graph) : GetTableLevelsWithTable(k)
    \/ \E f \in RelationStartIds : GetRelatedFields(f)

SpecRelations == InitRelations /\ [][NextRelations]_vars


\* what a validateTransformations call does to the caller's notes
NoteReport(g, report) ==
    firstReport' = IF firstReport = <<>>
                   THEN <<[graph |-> g, report |-> report, repeated |-> FALSE]>>
                   ELSE <<[firstReport[1] EXCEPT !.repeated = TRUE]>>

\* ValidateTransformations without this.validationErrors.clear(): the
\* entries of earlier calls stay in the Map
ValidateTransformationsNoClear(g) ==
    /\ LET report == ValidateFrom(g, 1, validationErrors) IN
       /\ validationErrors' = report
       /\ Return("validateTransformations", g, TRUE, report)
       /\ NoteReport(g, report)
    /\ UNCHANGED <<graph, suppliedOptions, options, expandedTables,
                   highlightedRelatedFields, selectedField, positions,
                   currentGraph, popup>>

\* validateTransformations(g): clears and refills this.validationErrors and
\* returns that very Map
ValidateTransformations(g) ==
    /\ LET report == ValidateFrom(g, 1, EmptyMap) IN
       /\ validationErrors' = report
       /\ Return("validateTransformations", g, TRUE, report)
       /\ NoteReport(g, report)
    /\ UNCHANGED <<graph, suppliedOptions, options, expandedTables,
                   highlightedRelatedFields, selectedField, positions,
                   currentGraph, popup>>

\* destroy(): the svg with everything in it is removed and the stored state
\* cleared; this.selectedField and this.options are left as they are
Destroy ==
    /\ expandedTables' = {}
    /\ highlightedRelatedFields' = {}
    /\ positions' = EmptyMap
    /\ validationErrors' = EmptyMap
    /\ currentGraph' = <<>>
    /\ popup' = Empty
    /\ Return("destroy", <<>>, TRUE, <<>>)
    /\ UNCHANGED <<caller, options, selectedField>>

\* what the caller reads in the report its first validateTransformations
\* call returned: that call returned this.validationErrors itself, and the
\* field is never assigned again, so the caller reads the Map of the instance
heldReport == validationErrors

\* -------------------------------------------------- the validation method
InitValidation ==
    /\ graph \in ValidationGraphs
    /\ suppliedOptions = NoOptions
    /\ firstReport = <<>>
    /\ NewInstance(suppliedOptions)

\* the caller validates its graph and, between two such calls, the example
\* graph, and may destroy the instance
NextValidation ==
    \/ \E g \in {graph}
                \cup (IF firstReport = <<>> THEN {} ELSE {ExampleGraph}) :
          ValidateTransformations(g)
    \/ Destroy

SpecValidation == InitValidation /\ [][NextValidation]_vars

\* calculatePositions(graph, tableLevels): stores the Map in this.positions
\* and returns it
CalculatePositions(tableLevels) ==
    /\ positions' = calculatePositions(graph, tableLevels, expandedTables,
                                       options)
    /\ Return("calculatePositions", tableLevels, TRUE,
              calculatePositions(graph, tableLevels, expandedTables, options))
    /\ UNCHANGED <<caller, options, expandedTables, highlightedRelatedFields,
                   selectedField, validationErrors, currentGraph, popup>>

\* Render whose calculatePositions fills the Map of the previous render
\* where the code starts from a new Map
RenderOntoOldMap(g, expanded) ==
    /\ validationErrors' = ValidateFrom(g, 1, EmptyMap)
    /\ currentGraph' = <<g>>
    /\ positions' = DefaultRemaining(g,
                        PlaceLevels(g, expanded, options,
                                    tablesByLevelOf(getTableLevels(g)), 1,
                                    positions))
    /\ popup' = Empty

\* render(g) with the expansion set `expanded`: validation, levels and
\* positions anew, and everything in mainGroup removed and drawn again
Render(g, expanded) ==
    /\ validationErrors' = ValidateFrom(g, 1, EmptyMap)
    /\ currentGraph' = <<g>>
    /\ positions' = calculatePositions(g, getTableLevels(g), expanded, options)
    /\ popup' = Empty

\* RenderBase that renders with the expansion set as it is
RenderBaseAsExpanded ==
    /\ expandedTables' = expandedTables
    /\ Render(graph, expandedTables)
    /\ Return("renderBase", <<>>, TRUE, <<>>)
    /\ UNCHANGED <<caller, options, highlightedRelatedFields, selectedField>>

\* renderBase(graph): every table node of the graph is added to
\* this.expandedTables, then render(graph)
RenderBase ==
    /\ expandedTables' = expandedTables \cup TableIds(graph)
    /\ Render(graph, expandedTables \cup TableIds(graph))
    /\ Return("renderBase", <<>>, TRUE, <<>>)
    /\ UNCHANGED <<caller, options, highlightedRelatedFields, selectedField>>

\* ToggleTableExpansion that changes the expansion set and renders nothing
ToggleWithoutRender(tableId) ==
    /\ expandedTables' = IF tableId \in expandedTables
                         THEN expandedTables \ {tableId}
                         ELSE expandedTables \cup {tableId}
    /\ Return("toggleTableExpansion", <<>>, TRUE, <<>>)
    /\ UNCHANGED <<caller, options, highlightedRelatedFields, selectedField,
                   validationErrors, currentGraph, positions, popup>>

\* toggleTableExpansion(tableId): the table leaves or enters
\* this.expandedTables, and a graph that was rendered is rendered again
ToggleTableExpansion(tableId) ==
    /\ expandedTables' = IF tableId \in expandedTables
                         THEN expandedTables \ {tableId}
                         ELSE expandedTables \cup {tableId}
    /\ IF currentGraph /= <<>>
       THEN Render(currentGraph[1], expandedTables')
       ELSE UNCHANGED <<validationErrors, currentGraph, positions, popup>>
    /\ Return("toggleTableExpansion", <<>>, TRUE, <<>>)
    /\ UNCHANGED <<caller, options, highlightedRelatedFields, selectedField>>

\* 'tableId' in field: every field node has one, a table node of these
\* graphs has none
HasTableId(node) == node.type = "field" \/ node.tableId /= Empty

\* showTransformationPopup(field): the popup that is in mainGroup afterwards,
\* named by its field.  The one before is removed first; a new one is
\* appended when the field has a transformation or a note, and a position.
showTransformationPopup(field, pos) ==
    IF field.transformation = Empty /\ field.note = Empty THEN Empty
    ELSE IF field.id \notin DOMAIN pos THEN Empty
    ELSE field.id

\* the click listener of a field group: if (this.currentGraph)
\* handleFieldClick(this.currentGraph, id)
HandleFieldClick(fieldId) ==
    /\ currentGraph /= <<>>
    /\ LET field == FindNode(currentGraph[1], fieldId) IN
       IF ~(field /= <<>> /\ HasTableId(field[1]))
       THEN UNCHANGED <<selectedField, popup, highlightedRelatedFields>>
       ELSE IF selectedField = fieldId
       THEN /\ selectedField' = Empty
            /\ popup' = Empty
            /\ UNCHANGED highlightedRelatedFields
       ELSE /\ selectedField' = fieldId
            /\ popup' = showTransformationPopup(field[1], positions)
            /\ highlightedRelatedFields'
                  = getRelatedFields(currentGraph[1], fieldId)
    /\ Return("handleFieldClick", fieldId, TRUE, <<>>)
    /\ UNCHANGED <<caller, options, expandedTables, positions,
                   validationErrors, currentGraph>>

\* HandleMouseEnterField without the test of this.selectedField
HandleMouseEnterFieldAlways(fieldId) ==
    /\ currentGraph /= <<>>
    /\ highlightedRelatedFields' = getRelatedFields(currentGraph[1], fieldId)
    /\ Return("handleMouseEnterField", fieldId, TRUE, <<>>)
    /\ UNCHANGED <<caller, options, expandedTables, selectedField, positions,
                   validationErrors, currentGraph, popup>>

\* the mouseenter listener of a field group: if (this.currentGraph)
\* handleMouseEnterField(this.currentGraph, id)
HandleMouseEnterField(fieldId) ==
    /\ currentGraph /= <<>>
    /\ highlightedRelatedFields'
          = IF selectedField = Empty
            THEN getRelatedFields(currentGraph[1], fieldId)
            ELSE highlightedRelatedFields
    /\ Return("handleMouseEnterField", fieldId, TRUE, <<>>)
    /\ UNCHANGED <<caller, options, expandedTables, selectedField, positions,
                   validationErrors, currentGraph, popup>>

\* the mouseleave listener of a field group
HandleMouseLeaveField ==
    /\ currentGraph /= <<>>
    /\ highlightedRelatedFields'
          = IF selectedField = Empty THEN {} ELSE highlightedRelatedFields
    /\ Return("handleMouseLeaveField", <<>>, TRUE, <<>>)
    /\ UNCHANGED <<caller, options, expandedTables, selectedField, positions,
                   validationErrors, currentGraph, popup>>

HideFieldDetails ==
    /\ popup' = Empty
    /\ selectedField' = Empty
    /\ highlightedRelatedFields' = {}
    /\ Return("hideFieldDetails", <<>>, TRUE, <<>>)
    /\ UNCHANGED <<caller, options, expandedTables, positions,
                   validationErrors, currentGraph>>

\* ------------------------------------------------------ the layout methods
InitLayout ==
    /\ graph \in LayoutGraphs
    /\ suppliedOptions = NoOptions
    /\ firstReport = <<>>
    /\ NewInstance(suppliedOptions)

NextLayout ==
    \/ RenderBase
    \/ \E t \in TableIds(graph) : ToggleTableExpansion(t)
    \/ \E tableLevels \in ForeignLevels \cup {getTableLevels(graph)} :
          CalculatePositions(tableLevels)

SpecLayout == InitLayout /\ [][NextLayout]_vars

\* ------------------------------------------ the inputs: options to lay out
\* every layout option is left out, 0, or a number that is not its default
OptionInputs ==
    [tableWidth : {<<>>, <<0>>, <<250>>},
     tableHeight : {<<>>, <<0>>, <<60>>},
     fieldHeight : {<<>>, <<0>>, <<30>>},
     fieldSpacing : {<<>>, <<0>>, <<8>>},
     levelPadding : {<<>>, <<0>>, <<120>>},
     verticalPadding : {<<>>, <<0>>, <<30>>}]

OptionsGraph ==
    Graph(LayoutNodes, <<Edge(idAa, idDd), Edge(idBb, idDd)>>)

\* ----------------------------------------- the component with its options
\* LineageMapComponent: new LineageMap(container, defaultOptions); the
\* effect then calls renderBase(graph)
InitOptions ==
    /\ graph = OptionsGraph
    /\ suppliedOptions \in OptionInputs
    /\ firstReport = <<>>
    /\ NewInstance(defaultOptions(suppliedOptions))

NextOptions ==
    \/ RenderBase
    \/ \E t \in TableIds(graph) : ToggleTableExpansion(t)

SpecOptions == InitOptions /\ [][NextOptions]_vars

\* ------------------------------------- the inputs: data for the component
idc == <<"c">>

\* the tableId a caller supplies with a field: none, A or B
SuppliedTableIds == {Empty, idA, idB}

\* tables A and B, a field of each and a field whose id has no ":"
ComponentNodes(ta, tb, tc) ==
    << TableNode(idA), FieldNode(idAa, ta, Empty),
       TableNode(idB), FieldNode(idBb, tb, Empty),
       FieldNode(idc, tc, Empty) >>

ComponentEdges == { Edge(idAa, idBb), Edge(idc, idBb) }

ComponentData ==
    {Graph(ComponentNodes(ta, tb, tc), es) :
        ta \in SuppliedTableIds, tb \in SuppliedTableIds,
        tc \in SuppliedTableIds, es \in SeqsUpTo(ComponentEdges, MaxEdges)}

\* ------------------------------------------ the component with its data
\* LineageMapComponent: the body normalizes the caller's data in place, the
\* effect makes the instance (done in Init) and calls renderBase
Mount ==
    /\ currentGraph = <<>>
    /\ graph' = normalizeData(graph)
    /\ expandedTables' = expandedTables \cup TableIds(graph')
    /\ Render(graph', expandedTables')
    /\ Return("LineageMapComponent", graph, TRUE, <<>>)
    /\ UNCHANGED <<suppliedOptions, firstReport, options,
                   highlightedRelatedFields, selectedField>>

InitComponent ==
    /\ graph \in ComponentData
    /\ suppliedOptions = NoOptions
    /\ firstReport = <<>>
    /\ NewInstance(defaultOptions(suppliedOptions))

NextComponent ==
    \/ Mount
    \/ \E t \in TableIds(graph) : ToggleTableExpansion(t)

SpecComponent == InitComponent /\ [][NextComponent]_vars

\* ------------------------------------------------------------ properties
\* ------------------------------------------- a session on a rendered graph
\* Tables A, B, D; B:b has a note, D:d a transformation that names A:a, A:a
\* has neither.
SessionNodes ==
    << TableNode(idA), FieldNode(idAa, idA, Empty),
       TableNode(idB), NotedFieldNode(idBb, idB, Empty, <<"n">>),
       TableNode(idD), FieldNode(idDd, idD, idAa) >>

\* the edges A:a -> B:b and B:b -> D:d, in any order and number
SessionGraphs ==
    {Graph(SessionNodes, es) :
        es \in SeqsUpTo({Edge(idAa, idBb), Edge(idBb, idDd)}, MaxEdges)}

InitSession ==
    /\ graph \in SessionGraphs
    /\ suppliedOptions = NoOptions
    /\ firstReport = <<>>
    /\ NewInstance(suppliedOptions)

\* clicked are the three fields, a table and an id that is no node; the
\* mouse enters the three fields
Next ==
    \/ RenderBase
    \/ \E t \in TableIds(graph) : ToggleTableExpansion(t)
    \/ \E f \in {idAa, idBb, idDd, idA, idQq} : HandleFieldClick(f)
    \/ \E f \in {idAa, idBb, idDd} : HandleMouseEnterField(f)
    \/ HandleMouseLeaveField
    \/ HideFieldDetails

Spec == InitSession /\ [][Next]_vars

\* -------------------- rendering among other calls of the public methods
\* between renders and toggles the caller computes positions from levels of
\* its own and validates the example graph
NextRender ==
    \/ RenderBase
    \/ \E t \in TableIds(graph) : ToggleTableExpansion(t)
    \/ \E tableLevels \in ForeignLevels : CalculatePositions(tableLevels)
    \/ ValidateTransformations(ExampleGraph)

SpecRender == InitSession /\ [][NextRender]_vars

\* transitive closure of a finite relation R (a set of pairs)
RECURSIVE TransitiveClosure(_)
TransitiveClosure(R) ==
    LET R2 == R \cup {<<x[1][1], x[2][2]>> :
                        x \in {y \in R \X R : y[1][2] = y[2][1]}}
    IN IF R2 = R THEN R ELSE TransitiveClosure(R2)

EdgePairs(es) == {<<es[i].source, es[i].target>> : i \in DOMAIN es}

Acyclic(R) == \A p \in TransitiveClosure(R) : p[1] /= p[2]

\* the level a TableLevel sequence gives to table t
LevelOf(levels, t) ==
    levels[CHOOSE i \in DOMAIN levels : levels[i].id = t].level

CalledLevels == returned.op = "getTableLevels"

\* C1: on every graph with unique node ids, cyclic ones included,
\* getTableLevels terminates (its loop ends within one round per table plus
\* one) and returns exactly one TableLevel for every table node and for
\* nothing else, each with an integer level >= 0.
C1_LevelsTotal ==
    CalledLevels =>
        /\ returned.terminated
        /\ \A t \in TableIds(graph) :
              Cardinality({i \in DOMAIN returned.value :
                              returned.value[i].id = t}) = 1
        /\ \A i \in DOMAIN returned.value :
              /\ returned.value[i].id \in TableIds(graph)
              /\ returned.value[i].level \in Nat

\* the levels of a graph whose inferred edges hold the 2-cycle A->B, B->A
C1_Witness ==
    /\ CalledLevels
    /\ {<<idA, idB>>, <<idB, idA>>}
           \subseteq EdgePairs(inferTableRelationships(graph))
    /\ \E i \in DOMAIN returned.value : returned.value[i].id = idA

\* C2: a table has level 0 if and only if it is in no inferred edge,
\* neither as source nor as target.
C2_ZeroIffIsolated ==
    CalledLevels =>
        \A i \in DOMAIN returned.value :
            returned.value[i].level = 0
                <=> ~HasInferredEdge(inferTableRelationships(graph),
                                     returned.value[i].id)

\* C3: when the inferred edges are acyclic, every inferred edge between two
\* tables of the graph goes from a lower to a strictly higher level.
C3_AcyclicEdgesAscend ==
    (CalledLevels /\ Acyclic(EdgePairs(inferTableRelationships(graph)))) =>
        \A p \in EdgePairs(inferTableRelationships(graph)) :
            (p[1] \in TableIds(graph) /\ p[2] \in TableIds(graph)) =>
                LevelOf(returned.value, p[1]) < LevelOf(returned.value, p[2])

\* C18: adding a table that takes part in no inferred edge puts that table
\* at level 0 and leaves every other table at the level it has without the
\* added table.
C18_AddedIsolatedTable ==
    returned.op = "getTableLevelsWithTable" =>
        /\ returned.terminated
        /\ LevelOf(returned.value, idE) = 0
        /\ \A t \in TableIds(graph) :
              LevelOf(returned.value, t) = LevelOf(getTableLevels(graph), t)

\* the table added in the middle of a graph that has a table at level 2 or
\* above and a table at level 0
C18_Witness ==
    /\ returned.op = "getTableLevelsWithTable"
    /\ returned.arg = 3
    /\ \E i, j \in DOMAIN returned.value :
          /\ returned.value[i].level >= 2
          /\ returned.value[j].level = 0
          /\ returned.value[j].id /= idE

\* the pairs of owning tables of the edges, without the pairs inside one
\* table and the endpoints that have no owning table, in order
RECURSIVE OwnerPairs(_, _)
OwnerPairs(g, i) ==
    IF i > Len(g.edges) THEN <<>>
    ELSE LET s == TableIdOf(g, g.edges[i].source)
             t == TableIdOf(g, g.edges[i].target)
         IN (IF s /= Empty /\ t /= Empty /\ s /= t THEN <<<<s, t>>>> ELSE <<>>)
                \o OwnerPairs(g, i + 1)

\* C6: inferTableRelationships returns exactly one edge for each distinct
\* ordered pair of different owning tables, in order of first occurrence.
C6_OneEdgePerPair ==
    returned.op = "inferTableRelationships" =>
        [i \in DOMAIN returned.value |->
            <<returned.value[i].source, returned.value[i].target>>]
          = Dedup(OwnerPairs(graph, 1))

\* the ids from which f is reachable along the edges of g
Upstream(g, f) == {p[1] : p \in {q \in TransitiveClosure(EdgePairs(g.edges)) :
                                     q[2] = f}}

\* C7: getRelatedFields(graph, f) terminates and returns exactly f and the
\* ids from which f is reachable along edges.
C7_RelatedIsUpstreamClosure ==
    returned.op = "getRelatedFields" =>
        /\ returned.terminated
        /\ Range(returned.value) = {returned.arg} \cup Upstream(graph, returned.arg)

\* a start field on a cycle, with an id that is only downstream of it
C7_Witness ==
    /\ returned.op = "getRelatedFields"
    /\ returned.arg \in Upstream(graph, returned.arg)
    /\ \E p \in EdgePairs(graph.edges) :
          p[1] = returned.arg /\ p[2] \notin Range(returned.value)


\* the last call was validateTransformations(returned.arg)
CalledValidate == returned.op = "validateTransformations"

\* the messages a report holds for a field id: none when the id is no key
ReportOf(report, id) == IF id \in DOMAIN report THEN report[id] ELSE <<>>

\* C4 as stated: on the example graph the report for D1 holds exactly one
\* discrepancy, that B:B1 has an edge but is not used.
C4_ExampleOneDiscrepancy ==
    (CalledValidate /\ returned.arg = ExampleGraph) =>
        ReportOf(returned.value, exTD_D1) = <<UnusedMessage(exTB_B1)>>

\* C4 as amended: on the example graph the report for D1 holds exactly two
\* discrepancies, that A:A1 and that B:B1 have an edge but are not used in
\* the transformation (which references A:A7 and C:C1 only).
C4_ExampleTwoDiscrepancies ==
    (CalledValidate /\ returned.arg = ExampleGraph) =>
        /\ ReportOf(returned.value, exTD_D1)
              = <<UnusedMessage(exTA_A1), UnusedMessage(exTB_B1)>>
        /\ DOMAIN returned.value = {exTD_D1}

C4_Witness ==
    /\ CalledValidate
    /\ returned.arg = ExampleGraph
    /\ Range(referencedFieldSetOf(exTransformationD1)) = {exTA_A7, exTC_C1}

\* the number of messages of a report equal to msg
Count(report, msg) == Cardinality({i \in DOMAIN report : report[i] = msg})

SourcesInto(g, id) ==
    {g.edges[i].source : i \in {j \in DOMAIN g.edges : g.edges[j].target = id}}

\* C5: for every field f with a non-empty transformation, with R the
\* distinct reference tokens of the transformation and I the distinct
\* sources of the edges into f, the report for f holds exactly one
\* "no edge" message for each id of R \ I, exactly one "unused" message for
\* each id of I \ R, and nothing else.
C5_ReportIsSymmetricDifference ==
    CalledValidate =>
        \A n \in {m \in Range(returned.arg.nodes) :
                     m.type = "field" /\ m.transformation /= Empty} :
            LET R == Range(fieldRefRegexMatch(n.transformation))
                I == SourcesInto(returned.arg, n.id)
                report == ReportOf(returned.value, n.id)
            IN /\ \A r \in R \ I : Count(report, NoEdgeMessage(r, n.id)) = 1
               /\ \A x \in I \ R : Count(report, UnusedMessage(x)) = 1
               /\ Len(report) = Cardinality(R \ I) + Cardinality(I \ R)

\* a field that references one id twice and has two edges from one source,
\* with a message of each kind
C5_Witness ==
    /\ CalledValidate
    /\ \E n \in Range(returned.arg.nodes) :
          /\ n.type = "field"
          /\ Len(fieldRefRegexMatch(n.transformation))
                > Cardinality(Range(fieldRefRegexMatch(n.transformation)))
          /\ \E i, j \in DOMAIN returned.arg.edges :
                i < j /\ returned.arg.edges[i] = returned.arg.edges[j]
                      /\ returned.arg.edges[i].target = n.id
          /\ \E k, l \in DOMAIN ReportOf(returned.value, n.id) :
                /\ ReportOf(returned.value, n.id)[k].node = n.id
                /\ ReportOf(returned.value, n.id)[l].node = Empty

\* C16: a field id is a key of the report only if the field has a
\* non-empty transformation and at least one discrepancy; no key maps to an
\* empty list; a field without a transformation is no key, whatever edges
\* point to it.
C16_KeysAreFieldsWithDiscrepancies ==
    CalledValidate =>
        /\ \A id \in DOMAIN returned.value :
              /\ Len(returned.value[id]) > 0
              /\ \E n \in Range(returned.arg.nodes) :
                    /\ n.id = id
                    /\ n.type = "field"
                    /\ n.transformation /= Empty
                    /\ Range(fieldRefRegexMatch(n.transformation))
                           /= SourcesInto(returned.arg, id)
        /\ \A n \in Range(returned.arg.nodes) :
              n.transformation = Empty => n.id \notin DOMAIN returned.value

\* a report with a key, without the field D:e whose transformation agrees
\* with its one edge, and without the field A:a that has an incoming edge
\* and no transformation
C16_Witness ==
    /\ CalledValidate
    /\ idDd \in DOMAIN returned.value
    /\ idAa \in SourcesInto(returned.arg, idDe)
    /\ idDe \notin DOMAIN returned.value
    /\ idDd \in SourcesInto(returned.arg, idAa)
    /\ idAa \notin DOMAIN returned.value

\* the graph without the edges whose source or target is no node
KnownEdgesOnly(g) ==
    Graph(g.nodes,
          SelectSeq(g.edges,
                    LAMBDA e : FindNode(g, e.source) /= <<>>
                                  /\ FindNode(g, e.target) /= <<>>))

\* C17: an edge whose source id or target id matches no node is ignored by
\* validation: the report is the report of the graph without such edges.
C17_DanglingEdgesIgnored ==
    CalledValidate =>
        returned.value
            = ValidateFrom(KnownEdgesOnly(returned.arg), 1, EmptyMap)

\* C19: validateTransformations is deterministic and leaves its input as it
\* is: a call on the graph of the caller's first call returns the report of
\* that first call, with the same keys and the same messages in the same
\* order, whatever was validated in between, and no call changes the
\* caller's graph.
C19_SameReportSameGraph ==
    /\ [](CalledValidate /\ returned.arg = firstReport[1].graph
              => returned.value = firstReport[1].report)
    /\ [][returned'.op = "validateTransformations" => graph' = graph]_vars

\* a later call on the graph of the first call, with a report that is not
\* empty
C19_Witness ==
    /\ CalledValidate
    /\ firstReport[1].repeated
    /\ returned.arg = firstReport[1].graph
    /\ returned.arg /= ExampleGraph
    /\ DOMAIN returned.value /= {}

NodeIds(g) == {g.nodes[i].id : i \in DOMAIN g.nodes}

\* the nodes the level loop places: the ids of the levels that are nodes,
\* and the fields of those of them that are expanded
PlacedIds(g, tableLevels, expanded) ==
    LET listed == {tableLevels[i].id : i \in DOMAIN tableLevels}
                      \cap NodeIds(g)
    IN listed \cup {n.id : n \in {m \in Range(g.nodes) :
                                     /\ m.type = "field"
                                     /\ m.tableId \in listed
                                     /\ m.tableId \in expanded}}

Origin == [x |-> 0, y |-> Int2Rat(0)]

\* C8: for every graph, TableLevel sequence and expansion set, the Map that
\* calculatePositions returns has exactly the node ids of the graph as
\* keys, and every node that the level loop did not place is at (0, 0).
C8_PositionsTotal ==
    returned.op = "calculatePositions" =>
        /\ DOMAIN returned.value = NodeIds(graph)
        /\ \A id \in NodeIds(graph)
                        \ PlacedIds(graph, returned.arg, expandedTables) :
              returned.value[id] = Origin

\* positions of levels that leave a table out, with a collapsed table and a
\* field whose table is unknown
C8_Witness ==
    /\ returned.op = "calculatePositions"
    /\ idB \notin PlacedIds(graph, returned.arg, expandedTables)
    /\ idD \in PlacedIds(graph, returned.arg, expandedTables)
    /\ idDd \notin PlacedIds(graph, returned.arg, expandedTables)
    /\ returned.value[idZz] = Origin
    /\ returned.value[idD] /= Origin

\* the last call was a render of the graph: the positions are those of
\* getTableLevels(graph) under the current expansion set
Rendered ==
    /\ returned.op \in {"renderBase", "toggleTableExpansion"}
    /\ currentGraph = <<graph>>

\* C9: within one level, for consecutive tables t, u in level order,
\* y(u) = y(t) + effectiveHeight(t) + verticalPadding.
C9_StackedByHeightPlusPadding ==
    Rendered =>
        LET byLevel == tablesByLevelOf(getTableLevels(graph)) IN
        \A l \in DOMAIN byLevel :
            \A i \in 1..(Len(byLevel[l].value) - 1) :
                LET t == byLevel[l].value[i]
                    u == byLevel[l].value[i + 1]
                IN positions[u].y
                     = RatAdd(positions[t].y,
                              Int2Rat(getTableHeight(graph, expandedTables,
                                                     options, t)
                                          + options.verticalPadding))

RECURSIVE RatSum(_, _)
RatSum(S, y) ==
    IF S = {} THEN Int2Rat(0)
    ELSE LET k == CHOOSE x \in S : TRUE IN RatAdd(y[k].y, RatSum(S \ {k}, y))

\* the sources of the edges whose target is a field of table t
SourcesIntoTable(g, t) ==
    {g.edges[i].source :
        i \in {j \in DOMAIN g.edges : TableIdOf(g, g.edges[j].target) = t}}

\* the nodes placed in the levels below the level of table t
PlacedBelow(g, tableLevels, expanded, t) ==
    PlacedIds(g, SelectSeq(tableLevels,
                           LAMBDA r : r.level < LevelOf(tableLevels, t)),
              expanded)

\* C10: when the first table of a level has incoming field edges whose
\* sources belong to two or more upstream tables, its y is the arithmetic
\* mean of the y of the distinct sources that have a computed position.
C10_FirstTableAtMeanOfSources ==
    Rendered =>
        LET levels == getTableLevels(graph)
            byLevel == tablesByLevelOf(levels)
        IN \A l \in DOMAIN byLevel :
            LET t == byLevel[l].value[1]
                sources == SourcesIntoTable(graph, t)
                placed == sources \cap PlacedBelow(graph, levels,
                                                  expandedTables, t)
            IN (/\ Cardinality({TableIdOf(graph, x) : x \in sources}
                                   \ {Empty}) >= 2
                /\ placed /= {})
               => positions[t].y
                     = RatDivInt(RatSum(placed, positions), Cardinality(placed))

\* the least of the y of the nodes of S (S not empty)
RatMin(S, y) ==
    LET k == CHOOSE x \in S : \A z \in S : ~RatLess(y[z].y, y[x].y) IN y[k].y

\* C11: when the sources of the incoming field edges of the first table of
\* a level all belong to one and the same upstream table, the table's y is
\* the least y among the sources that have a computed position.
C11_FirstTableAtMinOfSources ==
    Rendered =>
        LET levels == getTableLevels(graph)
            byLevel == tablesByLevelOf(levels)
        IN \A l \in DOMAIN byLevel :
            LET t == byLevel[l].value[1]
                sources == SourcesIntoTable(graph, t)
                owners == {TableIdOf(graph, x) : x \in sources}
                placed == sources \cap PlacedBelow(graph, levels,
                                                  expandedTables, t)
            IN (/\ Cardinality(owners) = 1
                /\ owners \subseteq TableIds(graph)
                /\ placed /= {})
               => positions[t].y = RatMin(placed, positions)

\* the y of the first table of a level that has no incoming edge: the
\* level's starting offset plus verticalPadding
DefaultFirstY(g, tableLevels, expanded, o, tablesInLevel) ==
    RatAdd(Rat(maxLevelHeightOf(g, expanded, o, tablesByLevelOf(tableLevels))
                   - LevelHeight(g, expanded, o, tablesInLevel, 1), 2),
           Int2Rat(o.verticalPadding))

\* C12: when the first table of a level has incoming field edges and none
\* of their sources has a computed position, its y is the default
\* sequential value, whatever the number of upstream tables.
C12_NoPlacedSourceGivesDefault ==
    Rendered =>
        LET levels == getTableLevels(graph)
            byLevel == tablesByLevelOf(levels)
        IN \A l \in DOMAIN byLevel :
            LET t == byLevel[l].value[1]
                sources == SourcesIntoTable(graph, t)
                placed == sources \cap PlacedBelow(graph, levels,
                                                  expandedTables, t)
            IN (sources /= {} /\ placed = {})
               => positions[t].y
                     = DefaultFirstY(graph, levels, expandedTables, options,
                                     byLevel[l].value)

\* C13: every table of level L, and every field placed beneath it, has
\* x = L * (tableWidth + levelPadding); hence, when the inferred edges are
\* acyclic, every inferred edge between two tables of the graph points from
\* a smaller x to a strictly larger x.
C13_ColumnsByLevel ==
    Rendered =>
        LET levels == getTableLevels(graph)
            inferred == EdgePairs(inferTableRelationships(graph))
        IN /\ \A i \in DOMAIN levels :
                LET levelX == levels[i].level
                                  * (options.tableWidth + options.levelPadding)
                IN /\ positions[levels[i].id].x = levelX
                   /\ levels[i].id \in expandedTables =>
                         \A f \in Range(fieldsOfTable(graph, levels[i].id)) :
                             positions[f.id].x = levelX
           /\ Acyclic(inferred) =>
                 \A p \in inferred :
                     (p[1] \in TableIds(graph) /\ p[2] \in TableIds(graph))
                         => positions[p[1]].x < positions[p[2]].x

\* C14: the i-th field (from 0, in node order among the fields with that
\* tableId) of an expanded table at (x, y) is at
\* (x, y + tableHeight + i * (fieldHeight + fieldSpacing)); the fields of a
\* collapsed table get no position from their table: they are at (0, 0).
C14_FieldsBelowHeader ==
    Rendered =>
        \A t \in TableIds(graph) :
            LET fields == fieldsOfTable(graph, t) IN
            \A i \in DOMAIN fields :
                positions[fields[i].id]
                    = IF t \in expandedTables
                      THEN [x |-> positions[t].x,
                            y |-> RatAdd(positions[t].y,
                                      Int2Rat(options.tableHeight
                                          + (i - 1) * (options.fieldHeight
                                                  + options.fieldSpacing)))]
                      ELSE Origin

\* table A expanded with its second field 64 below its header, table D
\* collapsed with its field at (0, 0)
C14_Witness ==
    /\ Rendered
    /\ idA \in expandedTables
    /\ positions[idAe].x = positions[idA].x
    /\ positions[idAe].y = RatAdd(positions[idA].y, Int2Rat(64))
    /\ positions[idA].x > 0
    /\ idD \notin expandedTables
    /\ positions[idDd] = Origin

\* C15: for a fixed graph and configuration the positions are a function of
\* the expansion set alone: whatever toggles came before, after a render
\* every node is where a calculation from nothing but the graph, the
\* options and the current expansion set puts it, so a sequence of toggles
\* that returns to an earlier expansion set returns every node to its
\* earlier position.
C15_PositionsFromExpansionOnly ==
    Rendered =>
        positions = calculatePositions(graph, getTableLevels(graph),
                                       expandedTables, options)

\* toggles after renderBase have brought the expansion set back to all the
\* tables, and the fields of D are below D again
C15_Witness ==
    /\ Rendered
    /\ returned.op = "toggleTableExpansion"
    /\ expandedTables = TableIds(graph)
    /\ positions[idDd] /= Origin
    /\ graph.edges /= <<>>

\* the defaults of the options table of the README
DocumentedDefaults ==
    [tableWidth |-> 150, tableHeight |-> 40, fieldHeight |-> 20,
     fieldSpacing |-> 4, levelPadding |-> 100, verticalPadding |-> 50]

\* for every layout option the supplied number, or the documented default
\* where the caller has left the option out
IntendedOptions ==
    [p \in DOMAIN suppliedOptions |->
        IF suppliedOptions[p] = <<>> THEN DocumentedDefaults[p]
        ELSE suppliedOptions[p][1]]

\* C20: each of the six layout options is optional: the layout uses the
\* documented default where the option is left out and exactly the supplied
\* number where the caller supplies one.
C20_OptionsAsSupplied ==
    Rendered =>
        /\ options = IntendedOptions
        /\ positions = calculatePositions(graph, getTableLevels(graph),
                                          expandedTables, IntendedOptions)

\* C21: after the component has normalized the caller's data every field
\* has a tableId: a field supplied without one has the part of its id
\* before the first ":", a field supplied with one keeps the supplied value.
C21_SuppliedTableIdKept ==
    returned.op = "LineageMapComponent" =>
        \A i \in DOMAIN graph.nodes :
            graph.nodes[i].type = "field" =>
                graph.nodes[i].tableId
                    = IF returned.arg.nodes[i].tableId = Empty
                      THEN SplitColon0(graph.nodes[i].id)
                      ELSE returned.arg.nodes[i].tableId

\* the ids of the field nodes of a graph
FieldIds(g) == {n.id : n \in {m \in Range(g.nodes) : m.type = "field"}}

\* C22: validation checks that referenced fields exist: when the
\* transformation of a field references an id that is no field node of the
\* graph, the report has an error for the referencing field, whether or not
\* an edge with that id as source exists.
C22_UnknownReferenceReported ==
    CalledValidate =>
        \A n \in Range(returned.arg.nodes) :
            (/\ n.type = "field"
             /\ n.transformation /= Empty
             /\ Range(fieldRefRegexMatch(n.transformation))
                    \ FieldIds(returned.arg) /= {})
                => n.id \in DOMAIN returned.value

\* the graph with only those edges whose target is a field owned by table t
OwnEdgesOnly(g, t) ==
    Graph(g.nodes, SelectSeq(g.edges, LAMBDA e : TableIdOf(g, e.target) = t))

\* the positions restricted to the nodes of S
PositionsOf(S, pos) == [id \in S \cap DOMAIN pos |-> pos[id]]

\* C23: the y of the first table T of a level depends only on the edges
\* whose target is a field owned by T: it is the y that the edges into T
\* alone give, so an edge into another table (one whose id begins with T's
\* id, say) changes neither whether T is anchored nor where.
C23_AnchorFromOwnEdgesOnly ==
    Rendered =>
        LET levels == getTableLevels(graph)
            byLevel == tablesByLevelOf(levels)
        IN \A l \in DOMAIN byLevel :
            LET t == byLevel[l].value[1]
                own == getOptimalTableY(
                           OwnEdgesOnly(graph, t), t,
                           PositionsOf(PlacedBelow(graph, levels,
                                                   expandedTables, t),
                                       positions))
            IN positions[t].y
                  = IF own /= <<>> THEN own[1]
                    ELSE DefaultFirstY(graph, levels, expandedTables, options,
                                       byLevel[l].value)

\* the tables an inferred edge leads to from table t
FedBy(g, t) ==
    {p[2] : p \in {q \in EdgePairs(inferTableRelationships(g)) : q[1] = t}}

\* the inferred edges join tables of the graph only, and have no cycle
AcyclicAmongTables(g) ==
    /\ \A p \in EdgePairs(inferTableRelationships(g)) :
          p[1] \in TableIds(g) /\ p[2] \in TableIds(g)
    /\ Acyclic(EdgePairs(inferTableRelationships(g)))

\* the tables that take part in an inferred edge
Connected(g) ==
    {t \in TableIds(g) : HasInferredEdge(inferTableRelationships(g), t)}

\* the greatest level of a TableLevel sequence (0 when it is empty)
MaxLevelOf(levels) ==
    IF levels = <<>> THEN 0
    ELSE CHOOSE m \in {levels[i].level : i \in DOMAIN levels} :
             \A i \in DOMAIN levels : levels[i].level <= m

\* C25: when the inferred edges are acyclic and join tables of the graph
\* only, a connected table without outgoing inferred edge has the maximum
\* level, every other connected table has the least level among the tables
\* it feeds directly minus one, and every level from 1 to the maximum is the
\* level of some table.
C25_LevelsByLongestPath ==
    (CalledLevels /\ AcyclicAmongTables(graph)) =>
        LET max == MaxLevelOf(returned.value) IN
        /\ \A t \in Connected(graph) :
              LevelOf(returned.value, t)
                 = IF FedBy(graph, t) = {} THEN max
                   ELSE (CHOOSE m \in {LevelOf(returned.value, u) :
                                           u \in FedBy(graph, t)} :
                            \A u \in FedBy(graph, t) :
                                m <= LevelOf(returned.value, u)) - 1
        /\ Connected(graph) /= {} =>
              \A l \in 1..max :
                  \E i \in DOMAIN returned.value : returned.value[i].level = l

\* the levels of A -> B, B -> C, A -> C: C is a sink at level 3, B feeds C
\* only, A feeds both and sits one below the lower of them
C25_Witness ==
    /\ CalledLevels
    /\ AcyclicAmongTables(graph)
    /\ EdgePairs(inferTableRelationships(graph))
          = {<<idA, idB>>, <<idB, idC>>, <<idA, idC>>}
    /\ LevelOf(returned.value, idA) = 1
    /\ LevelOf(returned.value, idB) = 2
    /\ LevelOf(returned.value, idC) = 3

\* C29: with positive sizes and paddings, and whatever tables are expanded,
\* the tables of one level do not overlap: each begins no higher than the
\* table before it ends (its y plus its effective height), also when the
\* first table of the level is anchored to its sources; and no x and no y is
\* negative.
C29_NoOverlapNoNegative ==
    Rendered =>
        LET byLevel == tablesByLevelOf(getTableLevels(graph)) IN
        /\ \A l \in DOMAIN byLevel :
              \A i \in 1..(Len(byLevel[l].value) - 1) :
                  LET t == byLevel[l].value[i]
                      u == byLevel[l].value[i + 1]
                  IN ~RatLess(positions[u].y,
                              RatAdd(positions[t].y,
                                     Int2Rat(getTableHeight(graph,
                                                 expandedTables, options, t))))
        /\ \A id \in DOMAIN positions :
              /\ positions[id].x >= 0
              /\ ~RatLess(positions[id].y, Int2Rat(0))

\* B and D share the level after A; B, the first of them, is anchored at
\* the y of its source A:a, and D follows below the expanded B
C29_Witness ==
    /\ Rendered
    /\ graph = Graph(LayoutNodes, <<Edge(idAa, idBb), Edge(idAa, idDd)>>)
    /\ {idA, idB} \subseteq expandedTables
    /\ positions[idB].y = positions[idAa].y
    /\ positions[idD].x = positions[idB].x
    /\ RatLess(positions[idB].y, positions[idD].y)

\* C28: the report that a validateTransformations call returned keeps its
\* contents: what the caller reads in it stays what the call put there, also
\* after a later validateTransformations call on another graph and after
\* destroy.
C28_ReturnedReportKept ==
    firstReport /= <<>> => heldReport = firstReport[1].report

\* C26: on a rendered graph, whatever clicks, hovers, toggles and
\* hideFieldDetails calls came before, a selected field has exactly its
\* related fields highlighted; and entering or leaving a field with the
\* mouse while a field is selected leaves the highlighted set as it is.
C26_HighlightFollowsSelection ==
    /\ []((currentGraph /= <<>> /\ selectedField /= Empty)
             => highlightedRelatedFields
                   = getRelatedFields(graph, selectedField))
    /\ [][(selectedField /= Empty
             /\ returned'.op \in {"handleMouseEnterField",
                                  "handleMouseLeaveField"})
            => highlightedRelatedFields' = highlightedRelatedFields]_vars

\* D:d is selected, with A:a and B:b upstream of it, and the mouse has
\* entered A:a since, whose own related set is A:a alone
C26_Witness ==
    /\ currentGraph /= <<>>
    /\ selectedField = idDd
    /\ returned.op = "handleMouseEnterField"
    /\ returned.arg = idAa
    /\ highlightedRelatedFields = {idAa, idBb, idDd}
    /\ getRelatedFields(graph, idAa) /= highlightedRelatedFields

HasDetails(g, id) ==
    LET f == FindNode(g, id) IN
    f /= <<>> /\ (f[1].transformation /= Empty \/ f[1].note /= Empty)

\* the popup of the selected field is there if that field has a
\* transformation or a note, and a popup that is there is its popup
PopupFollowsSelection ==
    /\ (selectedField /= Empty /\ HasDetails(graph, selectedField))
          => popup = selectedField
    /\ popup /= Empty => popup = selectedField

\* C30: on a rendered graph, after whatever clicks, hovers, toggles and
\* hideFieldDetails calls, the popup of the selected field is there whenever
\* that field has a transformation or a note, and a popup that is there is
\* the popup of the selected field: it is so after renderBase, and none of
\* these calls ends it.
C30_PopupFollowsSelection ==
    /\ [][returned'.op = "renderBase" /\ selectedField = Empty
            => PopupFollowsSelection']_vars
    /\ [][(/\ currentGraph /= <<>>
           /\ PopupFollowsSelection
           /\ returned'.op \in {"handleFieldClick", "handleMouseEnterField",
                                "handleMouseLeaveField", "hideFieldDetails",
                                "toggleTableExpansion"})
            => PopupFollowsSelection']_vars

\* C24: once a graph is rendered, after every toggleTableExpansion the
\* stored positions are those that calculatePositions gives for the current
\* graph, its levels and the new expansion set, and the stored report is
\* that of validateTransformations on the current graph: nothing that an
\* earlier call left in either survives.
C24_ToggleRendersAnew ==
    (returned.op = "toggleTableExpansion" /\ currentGraph /= <<>>) =>
        /\ positions = calculatePositions(currentGraph[1],
                                          getTableLevels(currentGraph[1]),
                                          expandedTables, options)
        /\ validationErrors = ValidateFrom(currentGraph[1], 1, EmptyMap)

\* a toggle that collapsed D, on a graph whose report is not empty, after
\* the caller has validated the example graph
C24_Witness ==
    /\ returned.op = "toggleTableExpansion"
    /\ currentGraph /= <<>>
    /\ firstReport /= <<>>
    /\ firstReport[1].report /= validationErrors
    /\ DOMAIN validationErrors /= {}
    /\ idD \notin expandedTables

====
